---- MODULE Spec2Model ----
(***************************************************************************)
(* Capability-compatibility resolver of the VSCodium Copilot installer     *)
(* (codium-copilot_Version13(1).py): the compatibility gate, the supported *)
(* capability set resolver, the engine version comparator and the version  *)
(* selector.                                                               *)
(*                                                                         *)
(* A Python string is a sequence of tokens; "@" is a token of its own, so  *)
(* "chatHooks@6" is <<"chatHooks", "@", "6">> and a capability name is a   *)
(* one-token string.                                                       *)
(***************************************************************************)
EXTENDS Integers, Sequences, FiniteSets, TLC

VARIABLES
    required_proposals,          \* check_api_compatibility: argument
    supported_proposals,         \* check_api_compatibility: argument
    gate_out,                    \* check_api_compatibility: returned tuple
    runtime_files,               \* files at RUNTIME_API_PROPOSALS_PATHS
    bundle_file,                 \* file at WORKBENCH_BUNDLE_PATHS
    product_files,               \* files at SYSTEM_PRODUCT_JSON_PATHS
    resolve_out,                 \* get_supported_api_proposals: outcome
    versions,                    \* extension_data['versions']
    target_version,              \* host version string
    supported_apis,              \* find_compatible_version_with_api_check: argument
    checked_count,
    skipped_prerelease,
    skipped_incompatible_engine,
    skipped_incompatible_api,
    pc,                          \* selector: "scan", "returned" or "raised"
    selected,                    \* index of the returned record, 0 for None
    tmp_files,                   \* indices whose /tmp/<id>-<ver>.vsix exists
    downloads,                   \* indices requested with requests.get, in order
    reported,                    \* counters printed with the verdict, <<>> before
    gate_calls,                  \* indices whose manifest was given to the gate
    arg_vscode_version,          \* is_version_compatible: first argument
    arg_engine_requirement,      \* is_version_compatible: second argument
    compat_out,                  \* is_version_compatible: outcome
    proposals_js,                \* get_runtime_api_proposals: file at the argument path
    reader_out,                  \* get_runtime_api_proposals: outcome
    registry,                    \* what the marketplace answers, per extension
    main_pc,                     \* main: the step it is at
    ext_index,                   \* main: position in the loops over extensions
    requests_sent,               \* registry requests sent so far
    main_downloads,              \* main: the list `downloads`
    resolver_calls,              \* calls of get_supported_api_proposals so far
    steps,                       \* main: steps 4-10 performed, in order
    config_success,              \* main: result of update_user_product_json
    granted,                     \* critical proposals added to the user product.json
    exit_code                    \* main: returned value, -1 before

gateVars == <<required_proposals, supported_proposals, gate_out>>
resolverVars == <<runtime_files, bundle_file, product_files, resolve_out>>
selectorVars == <<versions, target_version, supported_apis, checked_count,
                  skipped_prerelease, skipped_incompatible_engine,
                  skipped_incompatible_api, pc, selected, tmp_files, downloads,
                  reported, gate_calls>>
comparatorVars == <<arg_vscode_version, arg_engine_requirement, compat_out>>
readerVars == <<proposals_js, reader_out>>
mainVars == <<registry, main_pc, ext_index, requests_sent, main_downloads,
              resolver_calls, steps, config_success, granted, exit_code>>
vars == <<gateVars, resolverVars, selectorVars, comparatorVars, readerVars, mainVars>>

-----------------------------------------------------------------------------
(* Bounds *)

MaxReqs == 2            \* longest requirement list given to the gate
MaxBundleNames == 21    \* most distinct names matched in a bundle
NumRuntimePaths == 2    \* entries of RUNTIME_API_PROPOSALS_PATHS
NumProductPaths == 2    \* entries of SYSTEM_PRODUCT_JSON_PATHS
MaxTail == 2            \* longest catalog of arbitrary records
MaxCapTail == 2         \* records placed around the scan cap
MaxDecls == 2           \* most declarations in a file given to the reader

-----------------------------------------------------------------------------
(* Capability names and requirement strings *)

CapabilityNames == {<<"chatHooks">>, <<"activeComment">>, <<"missingProposal">>}

Revisions == {"1", "6", "999"}

ReqStrings ==
    {<<n[1]>> : n \in CapabilityNames}
      \cup {<<n[1], "@", r>> : n \in CapabilityNames, r \in Revisions}
      \cup {<<"chatHooks", "@", "1", "@", "2">>, <<"@", "6">>, <<>>}

RECURSIVE SeqsUpTo(_, _)
SeqsUpTo(S, n) ==
    IF n = 0 THEN {<<>>}
    ELSE LET shorter == SeqsUpTo(S, n - 1)
         IN shorter \cup {Append(q, x) : q \in shorter, x \in S}

-----------------------------------------------------------------------------
(* Compatibility gate *)

\* str.split('@'): the pieces between the separators, in order
RECURSIVE split(_)
split(s) ==
    IF \A i \in 1..Len(s) : s[i] # "@" THEN <<s>>
    ELSE LET k == CHOOSE i \in 1..Len(s) :
                      s[i] = "@" /\ \A j \in 1..(i - 1) : s[j] # "@"
         IN <<SubSeq(s, 1, k - 1)>> \o split(SubSeq(s, k + 1, Len(s)))

normalize_keep_suffix(proposal) == proposal

normalize_api_proposal(proposal) == split(proposal)[1]

\* the for loop of check_api_compatibility, from position i on
RECURSIVE unsupported_from(_, _, _, _)
unsupported_from(required, supported, i, unsupported) ==
    IF i > Len(required) THEN unsupported
    ELSE LET base_name == normalize_api_proposal(required[i])
         IN unsupported_from(required, supported, i + 1,
                IF base_name \notin supported
                THEN Append(unsupported, required[i])
                ELSE unsupported)

check_strict_on_empty(required, supported) ==
    LET unsupported == unsupported_from(required, supported, 1, <<>>)
    IN [ok |-> Len(unsupported) = 0, unsupported |-> unsupported]

check_first_failure_only(required, supported) ==
    LET unsupported == unsupported_from(required, supported, 1, <<>>)
    IN IF supported = {} THEN [ok |-> TRUE, unsupported |-> <<>>]
       ELSE [ok |-> Len(unsupported) = 0,
             unsupported |-> IF unsupported = <<>> THEN <<>>
                             ELSE <<unsupported[1]>>]

check_api_compatibility(required, supported) ==
    IF supported = {} THEN [ok |-> TRUE, unsupported |-> <<>>]
    ELSE LET unsupported == unsupported_from(required, supported, 1, <<>>)
         IN [ok |-> Len(unsupported) = 0, unsupported |-> unsupported]

GateIdle == [called |-> FALSE, ok |-> FALSE, unsupported |-> <<>>]

-----------------------------------------------------------------------------
(* Capability source readers *)

\* A file is [st, decls]: st is "absent", "unreadable" or "text"; decls are the
\* `key: ...` entries of its text, versioned when the entry has the shape
\* `key: { version: <digit>` that the pattern of re.findall matches.
AbsentFile == [st |-> "absent", decls |-> <<>>]
UnreadableFile == [st |-> "unreadable", decls |-> <<>>]
TextFile(decls) == [st |-> "text", decls |-> decls]
Decl(key, versioned) == [key |-> <<key>>, versioned |-> versioned]

None == [some |-> FALSE, names |-> {}]
Some(names) == [some |-> TRUE, names |-> names]

\* re.findall(r'["\']?([a-zA-Z][a-zA-Z0-9_]*)["\']?\s*:\s*\{\s*version\s*:\s*\d')
findall_names(decls) ==
    {decls[i].key : i \in {j \in 1..Len(decls) : decls[j].versioned}}

\* lines 272-283, the try block: read_text raises for a missing or
\* unreadable file; falling out of `if proposals:` reaches `return None`
read_runtime_proposals(file) ==
    IF file.st # "text" THEN [exc |-> "OSError", value |-> None]
    ELSE LET proposals == findall_names(file.decls) \ {<<"version">>}
         IN [exc |-> "none",
             value |-> IF proposals # {} THEN Some(proposals) ELSE None]

\* the try block without `except Exception: pass`
reader_lets_errors_escape(r) == r

\* lines 284-286: except Exception: pass; return None
except_exception_pass(r) ==
    IF r.exc # "none" THEN [exc |-> "none", value |-> None] ELSE r

get_runtime_api_proposals_outcome(file) ==
    except_exception_pass(read_runtime_proposals(file))

get_runtime_api_proposals(file) == get_runtime_api_proposals_outcome(file).value

NOISE_THRESHOLD == 20

\* the bundle reader: the same pattern scan, accepted from 20 names on
find_proposals_in_bundle_files(file) ==
    IF file.st # "text" THEN None
    ELSE LET proposals == findall_names(file.decls) \ {<<"version">>}
         IN IF Cardinality(proposals) >= NOISE_THRESHOLD
            THEN Some(proposals) ELSE None

\* A product.json is [st, enabled]: st is "absent", "unreadable",
\* "invalid_json", "not_object" (valid JSON that is no object) or "json";
\* enabled is extensionEnabledApiProposals as a list of [ext, proposals].
ProductFile(st, enabled) == [st |-> st, enabled |-> enabled]

\* the two nested for loops of lines 342-345
RECURSIVE all_proposals_from(_, _, _)
all_proposals_from(enabled, i, all_proposals) ==
    IF i > Len(enabled) THEN all_proposals
    ELSE all_proposals_from(enabled, i + 1,
             all_proposals \cup
                 {split(enabled[i].proposals[k])[1] :
                      k \in 1..Len(enabled[i].proposals)})

\* the try block of lines 335-355: the exception it ends with, or its value
read_first_extension_only(file) ==
    CASE file.st = "unreadable" -> [exc |-> "OSError", value |-> {}]
      [] file.st = "invalid_json" -> [exc |-> "JSONDecodeError", value |-> {}]
      [] file.st = "not_object" -> [exc |-> "AttributeError", value |-> {}]
      [] OTHER -> [exc |-> "none",
                   value |-> IF file.enabled = <<>> THEN {}
                             ELSE all_proposals_from(<<file.enabled[1]>>, 1, {})]

read_product_json(file) ==
    CASE file.st = "unreadable" -> [exc |-> "OSError", value |-> {}]
      [] file.st = "invalid_json" -> [exc |-> "JSONDecodeError", value |-> {}]
      [] file.st = "not_object" -> [exc |-> "AttributeError", value |-> {}]
      [] OTHER -> [exc |-> "none",
                   value |-> all_proposals_from(file.enabled, 1, {})]

Min(S) == CHOOSE x \in S : \A y \in S : x <= y

Returned(source, value) == [raised |-> FALSE, source |-> source, value |-> value]
Raised(exc) == [raised |-> TRUE, source |-> exc, value |-> {}]

\* lines 335-362 with only `except json.JSONDecodeError`
product_fallback_catches_json_only(file) ==
    LET r == read_product_json(file)
    IN CASE r.exc = "none" -> Returned("product_json", r.value)
         [] r.exc = "JSONDecodeError" -> Returned("none", {})
         [] OTHER -> Raised(r.exc)

product_fallback(file) ==
    LET r == read_product_json(file)
    IN CASE r.exc = "none" -> Returned("product_json", r.value)
         [] r.exc = "JSONDecodeError" -> Returned("none", {})
         [] OTHER -> Returned("none", {})          \* except Exception

\* -------------------------------------------------------------------------
\* Capability set resolver

\* runtime paths whose file exists and parses to a non-empty set
runtime_hits(runtime) ==
    {i \in 1..Len(runtime) :
         runtime[i].st # "absent" /\ get_runtime_api_proposals(runtime[i]).some}

get_supported_api_proposals(runtime, product) ==
    LET hits == runtime_hits(runtime)
        existing == {i \in 1..Len(product) : product[i].st # "absent"}
    IN IF hits # {}
       THEN Returned("runtime", get_runtime_api_proposals(runtime[Min(hits)]).names)
       ELSE IF existing = {} THEN Returned("none", {})
       ELSE product_fallback(product[Min(existing)])

ResolveIdle == [raised |-> FALSE, source |-> "pending", value |-> {}]

-----------------------------------------------------------------------------
(* Engine version comparator *)

\* A version string is [prefix, release, post, junk]: the characters before
\* the first digit, the dotted integers, the number of a trailing "-<digits>"
\* qualifier (-1 when there is none) and whether other text follows that
\* packaging.version cannot parse.
VersionStr(prefix, release, post, junk) ==
    [prefix |-> prefix, release |-> release, post |-> post, junk |-> junk]

\* str.lstrip(chars): drops leading characters while they are in chars
RECURSIVE lstrip(_, _)
lstrip(s, chars) ==
    IF s # <<>> /\ Head(s) \in chars THEN lstrip(Tail(s), chars) ELSE s

\* engine_str.lstrip('^')
strip_caret_only(engine_str) ==
    [engine_str EXCEPT !.prefix = lstrip(@, {"^"})]

\* engine_str.lstrip('^>=~')
parse_engine_requirement(engine_str) ==
    [engine_str EXCEPT !.prefix = lstrip(@, {"^", ">", "=", "~"})]

InvalidVersion == [valid |-> FALSE, release |-> <<>>, post |-> -1]

\* packaging.version.parse: "1.109.0-20260124" is the post-release
\* 1.109.0.post20260124; text left before the digits ("<1.0", "^1.0") or
\* after them ("1.0-insider", "*") raises InvalidVersion
version_parse(v) ==
    IF v.prefix # <<>> \/ v.junk \/ v.release = <<>> THEN InvalidVersion
    ELSE [valid |-> TRUE, release |-> v.release, post |-> v.post]

\* a release read without padding: a missing component sorts below 0
component_without_padding(release, i) ==
    IF i <= Len(release) THEN release[i] ELSE -1

Component(release, i) == IF i <= Len(release) THEN release[i] ELSE 0

\* Version.__ge__: release components left to right, missing ones 0, then
\* the post-release number, none below any
RECURSIVE release_cmp(_, _, _)
release_cmp(a, b, i) ==
    IF i > Len(a) /\ i > Len(b) THEN 0
    ELSE IF Component(a, i) > Component(b, i) THEN 1
    ELSE IF Component(a, i) < Component(b, i) THEN -1
    ELSE release_cmp(a, b, i + 1)

version_ge(a, b) ==
    LET c == release_cmp(a.release, b.release, 1)
    IN IF c # 0 THEN c > 0 ELSE a.post >= b.post

\* lines 681-683: the body of the try block
compare_parsed(vscode_version, engine_requirement) ==
    LET vscode_ver == version_parse(vscode_version)
        required_ver == version_parse(parse_engine_requirement(engine_requirement))
    IN IF ~vscode_ver.valid \/ ~required_ver.valid THEN Raised("InvalidVersion")
       ELSE Returned("try", version_ge(vscode_ver, required_ver))

\* the try block without its except clause
invalid_version_uncaught(outcome) == outcome

\* lines 684-686: except version.InvalidVersion -> return False
except_invalid_version(outcome) ==
    IF outcome.raised /\ outcome.source = "InvalidVersion"
    THEN Returned("except", FALSE)
    ELSE outcome

is_version_compatible_outcome(vscode_version, engine_requirement) ==
    except_invalid_version(compare_parsed(vscode_version, engine_requirement))

is_version_compatible(vscode_version, engine_requirement) ==
    is_version_compatible_outcome(vscode_version, engine_requirement).value

-----------------------------------------------------------------------------
(* Version records and packages *)

MAX_VERSIONS_TO_CHECK == 200

\* the 'Microsoft.VisualStudio.Code.Engine' property: absent, a string or a
\* JSON number
EngineAbsent == [kind |-> "none", str |-> VersionStr(<<>>, <<>>, -1, FALSE)]
EngineString(v) == [kind |-> "str", str |-> v]
EngineNumber == [kind |-> "number", str |-> VersionStr(<<>>, <<>>, -1, FALSE)]

\* A package (VSIX) is [st, apis]: st is "ok", "badzip", "nomanifest" or
\* "badjson"; apis is enabledApiProposals of its package.json.
Package(st, apis) == [st |-> st, apis |-> apis]

\* A version record, with what the environment does when it is probed:
\*   props     "ok", or "malformed" when a properties entry lacks key/value
\*   vsix      whether a VSIXPackage file with a source is listed
\*   dl        "ok"; "fail_nofile" / "fail_file": the download fails and the
\*             temporary file does not / does exist when it fails
\*   unlink    "ok"; "gone": the file was already removed by someone else;
\*             "transient": the first unlink fails, the next succeeds;
\*             "denied": every unlink fails
VersionRecord(props, prerelease, engine, vsix, dl, package, unlink) ==
    [props |-> props, prerelease |-> prerelease, engine |-> engine,
     vsix |-> vsix, dl |-> dl, package |-> package, unlink |-> unlink]

\* extract_api_proposals_from_vsix: every failure is caught and yields []
extract_api_proposals_from_vsix(package) ==
    IF package.st = "ok" THEN package.apis ELSE <<>>

-----------------------------------------------------------------------------
(* Version selector: find_compatible_version_with_api_check *)

\* `for ver in versions:` without the slice
total_without_cap == Len(versions)

total_to_check ==
    IF Len(versions) < MAX_VERSIONS_TO_CHECK THEN Len(versions)
    ELSE MAX_VERSIONS_TO_CHECK

Scanning == pc = "scan" /\ versions # <<>> /\ checked_count < total_to_check

ver == versions[checked_count + 1]

\* the checks of lines 718-742 that a record passes before it is downloaded
PassesProperties(v) == v.props = "ok"
PassesPrerelease(v) == PassesProperties(v) /\ ~v.prerelease
PassesEngineDeclared(v) == PassesPrerelease(v) /\ v.engine.kind # "none"
PassesEngineString(v) == PassesEngineDeclared(v) /\ v.engine.kind = "str"
PassesEngine(v) ==
    PassesEngineString(v) /\ is_version_compatible(target_version, v.engine.str)
PassesPackageListed(v) == PassesEngine(v) /\ v.vsix

required_apis(v) == extract_api_proposals_from_vsix(v.package)

\* lines 757-758: the gate is asked only about a non-empty list
is_api_compatible(v) ==
    IF required_apis(v) = <<>> THEN TRUE
    ELSE check_api_compatibility(required_apis(v), supported_apis).ok

\* temp_vsix_path.unlink() inside the try block, then the except handler of
\* lines 788-792: "done" when the unlink worked, "continue" when the handler
\* swallowed its failure, "raise" when the handler's own unlink failed
unlink_in_try(v) ==
    CASE v.unlink = "ok" -> "done"
      [] v.unlink = "gone" -> "continue"
      [] v.unlink = "transient" -> "continue"
      [] OTHER -> "raise"

\* the except handler after a failed download
handler_after_download_failure(v) ==
    IF v.dl = "fail_nofile" \/ v.unlink = "gone" THEN "continue"
    ELSE IF v.unlink = "ok" THEN "continue"
    ELSE "raise"

\* the temporary file stays whenever the unlink of the try block failed
file_left_when_handler_runs(outcome) ==
    IF outcome # "done" THEN {checked_count + 1} ELSE {}

\* the temporary file is left behind exactly when an unlink of the handler failed
FileLeft(outcome) == IF outcome = "raise" THEN {checked_count + 1} ELSE {}

Counters == <<skipped_prerelease, skipped_incompatible_engine, skipped_incompatible_api>>
Inputs == <<versions, target_version, supported_apis>>

ReturnNoVersions ==
    /\ pc = "scan"
    /\ versions = <<>>
    /\ pc' = "returned"
    /\ selected' = 0
    /\ UNCHANGED <<Inputs, checked_count, Counters, tmp_files, downloads>>
    /\ UNCHANGED <<reported, gate_calls>>
    /\ UNCHANGED <<gateVars, resolverVars, comparatorVars, readerVars, mainVars>>

ScanMalformedProperties ==
    /\ Scanning
    /\ ~PassesProperties(ver)
    /\ checked_count' = checked_count + 1
    /\ pc' = "raised"                              \* KeyError at line 718
    /\ UNCHANGED <<Inputs, Counters, selected, tmp_files, downloads>>
    /\ UNCHANGED <<reported, gate_calls>>
    /\ UNCHANGED <<gateVars, resolverVars, comparatorVars, readerVars, mainVars>>

ScanPrerelease ==
    /\ Scanning
    /\ PassesProperties(ver) /\ ver.prerelease
    /\ checked_count' = checked_count + 1
    /\ skipped_prerelease' = skipped_prerelease + 1
    /\ UNCHANGED <<Inputs, skipped_incompatible_engine, skipped_incompatible_api,
                   pc, selected, tmp_files, downloads>>
    /\ UNCHANGED <<reported, gate_calls>>
    /\ UNCHANGED <<gateVars, resolverVars, comparatorVars, readerVars, mainVars>>

ScanNoEngine ==
    /\ Scanning
    /\ PassesPrerelease(ver) /\ ver.engine.kind = "none"
    /\ checked_count' = checked_count + 1
    /\ UNCHANGED <<Inputs, Counters, pc, selected, tmp_files, downloads>>
    /\ UNCHANGED <<reported, gate_calls>>
    /\ UNCHANGED <<gateVars, resolverVars, comparatorVars, readerVars, mainVars>>

ScanEngineNotString ==
    /\ Scanning
    /\ PassesEngineDeclared(ver) /\ ver.engine.kind # "str"
    /\ checked_count' = checked_count + 1
    /\ pc' = "raised"                              \* AttributeError at line 676
    /\ UNCHANGED <<Inputs, Counters, selected, tmp_files, downloads>>
    /\ UNCHANGED <<reported, gate_calls>>
    /\ UNCHANGED <<gateVars, resolverVars, comparatorVars, readerVars, mainVars>>

ScanEngineMismatch ==
    /\ Scanning
    /\ PassesEngineString(ver)
    /\ ~is_version_compatible(target_version, ver.engine.str)
    /\ checked_count' = checked_count + 1
    /\ skipped_incompatible_engine' = skipped_incompatible_engine + 1
    /\ UNCHANGED <<Inputs, skipped_prerelease, skipped_incompatible_api,
                   pc, selected, tmp_files, downloads>>
    /\ UNCHANGED <<reported, gate_calls>>
    /\ UNCHANGED <<gateVars, resolverVars, comparatorVars, readerVars, mainVars>>

\* the package-less skip counted as an engine mismatch
ScanNoPackageCounted ==
    /\ Scanning
    /\ PassesEngine(ver) /\ ~ver.vsix
    /\ checked_count' = checked_count + 1
    /\ skipped_incompatible_engine' = skipped_incompatible_engine + 1
    /\ UNCHANGED <<Inputs, skipped_prerelease, skipped_incompatible_api, pc, selected,
                   tmp_files, downloads>>
    /\ UNCHANGED <<reported, gate_calls>>
    /\ UNCHANGED <<gateVars, resolverVars, comparatorVars, readerVars, mainVars>>

ScanNoPackage ==
    /\ Scanning
    /\ PassesEngine(ver) /\ ~ver.vsix
    /\ checked_count' = checked_count + 1
    /\ UNCHANGED <<Inputs, Counters, pc, selected, tmp_files, downloads>>
    /\ UNCHANGED <<reported, gate_calls>>
    /\ UNCHANGED <<gateVars, resolverVars, comparatorVars, readerVars, mainVars>>

ScanDownloadFailed ==
    /\ Scanning
    /\ PassesPackageListed(ver) /\ ver.dl # "ok"
    /\ checked_count' = checked_count + 1
    /\ downloads' = Append(downloads, checked_count + 1)
    /\ tmp_files' = tmp_files \cup FileLeft(handler_after_download_failure(ver))
    /\ pc' = IF handler_after_download_failure(ver) = "raise" THEN "raised" ELSE pc
    /\ UNCHANGED <<Inputs, Counters, selected>>
    /\ UNCHANGED <<reported, gate_calls>>
    /\ UNCHANGED <<gateVars, resolverVars, comparatorVars, readerVars, mainVars>>

ScanApiMismatch ==
    /\ Scanning
    /\ PassesPackageListed(ver) /\ ver.dl = "ok"
    /\ ~is_api_compatible(ver)
    /\ checked_count' = checked_count + 1
    /\ downloads' = Append(downloads, checked_count + 1)
    /\ skipped_incompatible_api' = skipped_incompatible_api + 1
    /\ tmp_files' = tmp_files \cup FileLeft(unlink_in_try(ver))
    /\ pc' = IF unlink_in_try(ver) = "raise" THEN "raised" ELSE pc
    /\ UNCHANGED <<Inputs, skipped_prerelease, skipped_incompatible_engine, selected>>
    /\ gate_calls' = Append(gate_calls, checked_count + 1)
    /\ UNCHANGED reported
    /\ UNCHANGED <<gateVars, resolverVars, comparatorVars, readerVars, mainVars>>

ScanAccept ==
    /\ Scanning
    /\ PassesPackageListed(ver) /\ ver.dl = "ok"
    /\ is_api_compatible(ver)
    /\ checked_count' = checked_count + 1
    /\ downloads' = Append(downloads, checked_count + 1)
    /\ tmp_files' = tmp_files \cup FileLeft(unlink_in_try(ver))
    /\ pc' = CASE unlink_in_try(ver) = "done" -> "returned"
               [] unlink_in_try(ver) = "continue" -> pc
               [] OTHER -> "raised"
    /\ selected' = IF unlink_in_try(ver) = "done" THEN checked_count + 1 ELSE selected
    /\ gate_calls' = IF required_apis(ver) = <<>> THEN gate_calls
                     ELSE Append(gate_calls, checked_count + 1)
    /\ UNCHANGED <<Inputs, Counters>>
    /\ reported' = <<checked_count + 1, skipped_prerelease,
                    skipped_incompatible_engine, skipped_incompatible_api>>
    /\ UNCHANGED <<gateVars, resolverVars, comparatorVars, readerVars, mainVars>>

ReturnExhausted ==
    /\ pc = "scan"
    /\ versions # <<>>
    /\ checked_count = total_to_check
    /\ pc' = "returned"
    /\ selected' = 0
    /\ UNCHANGED <<Inputs, checked_count, Counters, tmp_files, downloads, gate_calls>>
    /\ reported' = <<checked_count, skipped_prerelease,
                    skipped_incompatible_engine, skipped_incompatible_api>>
    /\ UNCHANGED <<gateVars, resolverVars, comparatorVars, readerVars, mainVars>>

-----------------------------------------------------------------------------
(* Evidence files the resolver may find *)

RuntimeFileSet ==
    {AbsentFile, UnreadableFile, TextFile(<<>>),
     TextFile(<<Decl("version", TRUE)>>),
     TextFile(<<Decl("chatHooks", TRUE), Decl("version", TRUE),
                Decl("exports", FALSE)>>),
     TextFile(<<Decl("activeComment", TRUE)>>)}

NumStr == <<"1", "2", "3", "4", "5", "6", "7", "8", "9", "10", "11", "12",
            "13", "14", "15", "16", "17", "18", "19", "20", "21", "22",
            "23", "24">>

BundleDecls(k) ==
    [i \in 1..k |-> IF i = 1 THEN Decl("chatHooks", TRUE)
                    ELSE [key |-> <<"bundleProposal", NumStr[i]>>,
                          versioned |-> TRUE]]

BundleSizes == {1, NOISE_THRESHOLD - 1, NOISE_THRESHOLD, MaxBundleNames}

BundleFileSet == {AbsentFile} \cup {TextFile(BundleDecls(k)) : k \in BundleSizes}

ProductFileSet ==
    {ProductFile("absent", <<>>), ProductFile("unreadable", <<>>),
     ProductFile("invalid_json", <<>>), ProductFile("not_object", <<>>),
     ProductFile("json", <<>>),
     ProductFile("json",
         <<[ext |-> "GitHub.copilot-chat",
            proposals |-> <<<<"chatHooks", "@", "6">>, <<"activeComment">>>>]>>),
     ProductFile("json",
         <<[ext |-> "GitHub.copilot",
            proposals |-> <<<<"activeComment", "@", "1">>>>],
           [ext |-> "ms-vscode.remote",
            proposals |-> <<<<"missingProposal", "@", "1">>,
                            <<"chatHooks", "@", "1", "@", "2">>>>]>>)}

-----------------------------------------------------------------------------
(* Specifications of the gate and of the resolver *)

GateUnused ==
    /\ required_proposals = <<>>
    /\ supported_proposals = {}
    /\ gate_out = GateIdle

ResolverUnused ==
    /\ runtime_files = <<>>
    /\ bundle_file = AbsentFile
    /\ product_files = <<>>
    /\ resolve_out = ResolveIdle

SelectorUnused ==
    /\ versions = <<>>
    /\ target_version = <<>>
    /\ supported_apis = {}
    /\ checked_count = 0
    /\ skipped_prerelease = 0
    /\ skipped_incompatible_engine = 0
    /\ skipped_incompatible_api = 0
    /\ pc = "idle"
    /\ selected = 0
    /\ tmp_files = {}
    /\ downloads = <<>>
    /\ reported = <<>>
    /\ gate_calls = <<>>

ComparatorUnused ==
    /\ arg_vscode_version = VersionStr(<<>>, <<>>, -1, FALSE)
    /\ arg_engine_requirement = VersionStr(<<>>, <<>>, -1, FALSE)
    /\ compat_out = [called |-> FALSE, raised |-> FALSE, value |-> FALSE]

ReaderIdle == [called |-> FALSE, raised |-> FALSE, some |-> FALSE, names |-> {}]

ReaderUnused ==
    /\ proposals_js = AbsentFile
    /\ reader_out = ReaderIdle

MainUnused ==
    /\ registry = <<>>
    /\ main_pc = "idle"
    /\ ext_index = 0
    /\ requests_sent = 0
    /\ main_downloads = <<>>
    /\ resolver_calls = 0
    /\ steps = <<>>
    /\ config_success = FALSE
    /\ granted = {}
    /\ exit_code = -1

GateInit ==
    /\ required_proposals \in SeqsUpTo(ReqStrings, MaxReqs)
    /\ supported_proposals \in SUBSET CapabilityNames
    /\ gate_out = GateIdle
    /\ ResolverUnused
    /\ SelectorUnused
    /\ ComparatorUnused
    /\ ReaderUnused
    /\ MainUnused

CheckApiCompatibility ==
    /\ ~gate_out.called
    /\ gate_out' = [called |-> TRUE,
                    ok |-> check_api_compatibility(required_proposals,
                                                   supported_proposals).ok,
                    unsupported |->
                        check_api_compatibility(required_proposals,
                                                supported_proposals).unsupported]
    /\ UNCHANGED <<required_proposals, supported_proposals>>
    /\ UNCHANGED <<resolverVars, selectorVars, comparatorVars, readerVars, mainVars>>

GateNext == CheckApiCompatibility

SpecGate == GateInit /\ [][GateNext]_vars

ResolverInit ==
    /\ runtime_files \in [1..NumRuntimePaths -> RuntimeFileSet]
    /\ bundle_file \in BundleFileSet
    /\ product_files \in [1..NumProductPaths -> ProductFileSet]
    /\ resolve_out = ResolveIdle
    /\ GateUnused
    /\ SelectorUnused
    /\ ComparatorUnused
    /\ ReaderUnused
    /\ MainUnused

GetSupportedApiProposals ==
    /\ resolve_out = ResolveIdle
    /\ resolve_out' = get_supported_api_proposals(runtime_files, product_files)
    /\ UNCHANGED <<runtime_files, bundle_file, product_files>>
    /\ UNCHANGED <<gateVars, selectorVars, comparatorVars, readerVars, mainVars>>

ResolverNext == GetSupportedApiProposals

SpecResolver == ResolverInit /\ [][ResolverNext]_vars

\* versions of the comparator tests, and 1.109 for a release with fewer
\* components; <<>> is a string with no digits at all, such as "*"
ReleaseSet ==
    {<<>>, <<1, 109>>, <<1, 109, 0>>, <<1, 109, 51242>>, <<1, 110, 0>>,
     <<1, 100, 0>>, <<1, 200, 0>>}

\* no qualifier, or the "-20260124" of "^1.109.0-20260124"
QualifierSet == {-1, 20260124}

OperatorPrefixes == {<<>>, <<"^">>, <<">", "=">>, <<"~">>}

HostStrings ==
    {VersionStr(p, r, q, j) :
        p \in {<<>>, <<"^">>}, r \in ReleaseSet, q \in QualifierSet, j \in BOOLEAN}

RequirementStrings ==
    {VersionStr(p, r, q, j) :
        p \in OperatorPrefixes \cup {<<"<">>}, r \in ReleaseSet, q \in QualifierSet,
        j \in BOOLEAN}

ComparatorInit ==
    /\ arg_vscode_version \in HostStrings
    /\ arg_engine_requirement \in RequirementStrings
    /\ compat_out = [called |-> FALSE, raised |-> FALSE, value |-> FALSE]
    /\ GateUnused
    /\ ResolverUnused
    /\ SelectorUnused
    /\ ReaderUnused
    /\ MainUnused

IsVersionCompatible ==
    /\ ~compat_out.called
    /\ compat_out' =
          [called |-> TRUE,
           raised |-> is_version_compatible_outcome(arg_vscode_version,
                                                    arg_engine_requirement).raised,
           value |-> is_version_compatible_outcome(arg_vscode_version,
                                                   arg_engine_requirement).value]
    /\ UNCHANGED <<arg_vscode_version, arg_engine_requirement>>
    /\ UNCHANGED <<gateVars, resolverVars, selectorVars, readerVars, mainVars>>

ComparatorNext == IsVersionCompatible

SpecComparator == ComparatorInit /\ [][ComparatorNext]_vars

\* a declaration as it is written in the file: key quoted or bare, on
\* several lines or minified; the pattern accepts all four
FormattedDecl(key, versioned, quoted, minified) ==
    [key |-> <<key>>, versioned |-> versioned, quoted |-> quoted,
     minified |-> minified]

ReaderDecls ==
    {FormattedDecl(k, v, q, m) :
        k \in {"chatHooks", "activeComment", "version", "exports"},
        v \in BOOLEAN, q \in BOOLEAN, m \in BOOLEAN}

ReaderFileSet ==
    {AbsentFile, UnreadableFile} \cup {TextFile(d) : d \in SeqsUpTo(ReaderDecls, MaxDecls)}

ReaderInit ==
    /\ proposals_js \in ReaderFileSet
    /\ reader_out = ReaderIdle
    /\ GateUnused
    /\ ResolverUnused
    /\ SelectorUnused
    /\ ComparatorUnused
    /\ MainUnused

GetRuntimeApiProposals ==
    /\ ~reader_out.called
    /\ reader_out' =
          [called |-> TRUE,
           raised |-> get_runtime_api_proposals_outcome(proposals_js).exc # "none",
           some |-> get_runtime_api_proposals_outcome(proposals_js).value.some,
           names |-> get_runtime_api_proposals_outcome(proposals_js).value.names]
    /\ UNCHANGED proposals_js
    /\ UNCHANGED <<gateVars, resolverVars, selectorVars, comparatorVars, mainVars>>

ReaderNext == GetRuntimeApiProposals

SpecReader == ReaderInit /\ [][ReaderNext]_vars


-----------------------------------------------------------------------------
(* Claims about the gate (SpecGate) *)

\* the text of a requirement before its first '@'
TextBeforeAt(s) ==
    LET ats == {i \in 1..Len(s) : s[i] = "@"}
    IN IF ats = {} THEN s ELSE SubSeq(s, 1, Min(ats) - 1)

\* C2: with an empty supported set the gate returns (True, []) for every
\* requirement list.
PermissiveGate ==
    (gate_out.called /\ supported_proposals = {})
        => (gate_out.ok /\ gate_out.unsupported = <<>>)

PermissiveGateWitness ==
    /\ gate_out.called
    /\ supported_proposals = {}
    /\ required_proposals = <<<<"chatHooks", "@", "6">>, <<"missingProposal", "@", "999">>>>
    /\ gate_out.ok

\* C3: with a non-empty supported set the unsupported list is the
\* subsequence of the requirements, in input order and unchanged, whose text
\* before '@' is not supported, and ok is true iff that list is empty.
GateSubsequence ==
    (gate_out.called /\ supported_proposals # {})
        => LET Fails(r) == TextBeforeAt(r) \notin supported_proposals
           IN /\ gate_out.unsupported = SelectSeq(required_proposals, Fails)
              /\ gate_out.ok = (SelectSeq(required_proposals, Fails) = <<>>)

GateSubsequenceWitness ==
    /\ gate_out.called
    /\ supported_proposals = {<<"chatHooks">>}
    /\ required_proposals = <<<<"missingProposal", "@", "1">>, <<"activeComment">>>>
    /\ gate_out.unsupported = required_proposals
    /\ ~gate_out.ok

IsNameWithRevision(r) ==
    \/ Len(r) = 1 /\ r \in CapabilityNames
    \/ Len(r) = 3 /\ <<r[1]>> \in CapabilityNames /\ r[2] = "@" /\ r[3] \in Revisions

\* C4: the verdict for [x@n] is the verdict for [x@m] and for [x], whatever
\* the revisions and the supported set; a supported base name is never
\* rejected for its revision.
RevisionsAdvisory ==
    (gate_out.called /\ Len(required_proposals) = 1
                     /\ IsNameWithRevision(required_proposals[1]))
        => LET x == required_proposals[1][1]
           IN /\ \A m \in Revisions :
                    check_api_compatibility(<<<<x, "@", m>>>>,
                                            supported_proposals).ok = gate_out.ok
              /\ check_api_compatibility(<<<<x>>>>, supported_proposals).ok
                     = gate_out.ok
              /\ (<<x>> \in supported_proposals => gate_out.ok)

RevisionsAdvisoryWitness ==
    /\ gate_out.called
    /\ required_proposals = <<<<"chatHooks", "@", "999">>>>
    /\ supported_proposals = {<<"chatHooks">>}
    /\ gate_out.ok

-----------------------------------------------------------------------------
(* Claims about the resolver (SpecResolver) *)

Resolved == resolve_out # ResolveIdle

FirstExistingProduct ==
    product_files[Min({i \in 1..Len(product_files) : product_files[i].st # "absent"})]

SomeProductExists == \E i \in 1..Len(product_files) : product_files[i].st # "absent"

\* what each source yields, None when it yields nothing
StructuredSourceResult ==
    IF runtime_hits(runtime_files) = {} THEN None
    ELSE get_runtime_api_proposals(runtime_files[Min(runtime_hits(runtime_files))])

BundleResult == find_proposals_in_bundle_files(bundle_file)

PermissionListResult ==
    IF SomeProductExists /\ read_product_json(FirstExistingProduct).exc = "none"
    THEN Some(read_product_json(FirstExistingProduct).value)
    ELSE None

\* C5: the resolver never raises, whatever the evidence files are, and
\* returns the empty set when no source yields a result.
ResolverTotal ==
    Resolved =>
        /\ ~resolve_out.raised
        /\ (~StructuredSourceResult.some /\ ~BundleResult.some
              /\ ~PermissionListResult.some) => resolve_out.value = {}

ResolverTotalWitness ==
    /\ Resolved
    /\ runtime_files[1] = UnreadableFile
    /\ runtime_files[2] = TextFile(<<Decl("version", TRUE)>>)
    /\ product_files[1] = ProductFile("unreadable", <<>>)
    /\ resolve_out.value = {}

\* C6: the returned set is the result of the highest-priority source
\* (structured-source file, then bundle, then permission list) that yields
\* one, and of that source alone.
FirstSourceWins ==
    Resolved =>
        /\ ~resolve_out.raised
        /\ resolve_out.value =
             IF StructuredSourceResult.some THEN StructuredSourceResult.names
             ELSE IF BundleResult.some THEN BundleResult.names
             ELSE IF PermissionListResult.some THEN PermissionListResult.names
             ELSE {}

\* C7: with no runtime proposals file and no bundle, a product.json allow-list
\* alone leaves the resolver permissive: it returns the empty set.
ProductJsonOnlyIsPermissive ==
    (/\ Resolved
     /\ \A i \in 1..Len(runtime_files) : runtime_files[i].st = "absent"
     /\ bundle_file.st = "absent"
     /\ SomeProductExists)
        => resolve_out.value = {}

BundleThreshold ==
    LET matched == findall_names(bundle_file.decls)
    IN /\ (Cardinality(matched) < 20 => ~BundleResult.some)
       /\ (Cardinality(matched) >= 20 => BundleResult = Some(matched))
       /\ (/\ Resolved
           /\ \A i \in 1..Len(runtime_files) : runtime_files[i].st = "absent"
           /\ Cardinality(matched) >= 20)
              => resolve_out.value = matched

-----------------------------------------------------------------------------
(* Catalogs the selector is run on *)

HostVersion == VersionStr(<<>>, <<1, 109, 51242>>, -1, FALSE)

Engine109 == EngineString(VersionStr(<<"^">>, <<1, 109, 0>>, -1, FALSE))
Engine110 == EngineString(VersionStr(<<"^">>, <<1, 110, 0>>, -1, FALSE))
EngineUnparseable == EngineString(VersionStr(<<>>, <<>>, -1, TRUE))

NoPackage == Package("badzip", <<>>)

PackageSet ==
    {Package("ok", <<>>),
     Package("ok", <<<<"chatHooks", "@", "6">>>>),
     Package("ok", <<<<"chatHooks", "@", "6">>, <<"missingProposal", "@", "1">>>>),
     Package("badzip", <<>>)}

UnlinkSet == {"ok", "gone", "transient", "denied"}

PrereleaseRecord == VersionRecord("ok", TRUE, Engine109, TRUE, "ok", NoPackage, "ok")

FetchedRecord(package, unlink) ==
    VersionRecord("ok", FALSE, Engine109, TRUE, "ok", package, unlink)

GoodRecord == FetchedRecord(Package("ok", <<<<"chatHooks", "@", "6">>>>), "ok")

VersionRecords ==
    {VersionRecord("malformed", FALSE, Engine109, TRUE, "ok", NoPackage, "ok"),
     PrereleaseRecord,
     VersionRecord("ok", FALSE, EngineAbsent, TRUE, "ok", NoPackage, "ok"),
     VersionRecord("ok", FALSE, EngineNumber, TRUE, "ok", NoPackage, "ok"),
     VersionRecord("ok", FALSE, Engine110, TRUE, "ok", NoPackage, "ok"),
     VersionRecord("ok", FALSE, EngineUnparseable, TRUE, "ok", NoPackage, "ok"),
     VersionRecord("ok", FALSE, Engine109, FALSE, "ok", NoPackage, "ok"),
     VersionRecord("ok", FALSE, Engine109, TRUE, "fail_nofile", NoPackage, "ok"),
     VersionRecord("ok", FALSE, Engine109, TRUE, "fail_file", NoPackage, "ok"),
     VersionRecord("ok", FALSE, Engine109, TRUE, "fail_file", NoPackage, "denied")}
      \cup {FetchedRecord(p, u) : p \in PackageSet, u \in UnlinkSet}
      \cup {FetchedRecord(Package(st, <<>>), "ok") : st \in {"nomanifest", "badjson"}}

\* one pre-release record, one engine-mismatched record, one record with no
\* package reference and one fully compatible record, in that order
EndToEndCatalog(unlink) ==
    <<PrereleaseRecord,
      VersionRecord("ok", FALSE, Engine110, TRUE, "ok", NoPackage, "ok"),
      VersionRecord("ok", FALSE, Engine109, FALSE, "ok", NoPackage, "ok"),
      FetchedRecord(Package("ok", <<<<"chatHooks", "@", "6">>>>), unlink)>>

\* records placed after a run of pre-release records that reaches the scan cap
CapRecords ==
    {GoodRecord, PrereleaseRecord,
     VersionRecord("ok", FALSE, Engine110, TRUE, "ok", NoPackage, "ok")}

Pad(n) == [i \in 1..n |-> PrereleaseRecord]

Catalogs ==
    SeqsUpTo(VersionRecords, MaxTail)
      \cup {Pad(n) \o t : n \in {MAX_VERSIONS_TO_CHECK - 1, MAX_VERSIONS_TO_CHECK},
                          t \in SeqsUpTo(CapRecords, MaxCapTail)}
      \cup {EndToEndCatalog(u) : u \in UnlinkSet}

SupportedSets == {{}, {<<"chatHooks">>}, {<<"activeComment">>}}

SelectorInit ==
    /\ versions \in Catalogs
    /\ target_version = HostVersion
    /\ supported_apis \in SupportedSets
    /\ checked_count = 0
    /\ skipped_prerelease = 0
    /\ skipped_incompatible_engine = 0
    /\ skipped_incompatible_api = 0
    /\ pc = "scan"
    /\ selected = 0
    /\ tmp_files = {}
    /\ downloads = <<>>
    /\ reported = <<>>
    /\ gate_calls = <<>>
    /\ GateUnused
    /\ ResolverUnused
    /\ ComparatorUnused
    /\ ReaderUnused
    /\ MainUnused

Init == SelectorInit

Next ==
    \/ ReturnNoVersions
    \/ ScanMalformedProperties
    \/ ScanPrerelease
    \/ ScanNoEngine
    \/ ScanEngineNotString
    \/ ScanEngineMismatch
    \/ ScanNoPackage
    \/ ScanDownloadFailed
    \/ ScanApiMismatch
    \/ ScanAccept
    \/ ReturnExhausted

Spec == Init /\ [][Next]_vars

-----------------------------------------------------------------------------
(* main: resolution, then the steps that change the installation *)

EXTENSIONS == <<"GitHub.copilot-chat">>

\* What the registry does with the request for one extension. kind is
\*   "timeout", "connection_error", "http_error": requests.post or
\*       raise_for_status raises;
\*   "not_json": the body is not JSON;
\*   "json_not_object": the body is JSON but no object ([] or null);
\*   "no_results", "no_extensions": an object without usable results;
\*   "ok": results[0]['extensions'][0] exists, with the versions given.
Response(kind, catalog) == [kind |-> kind, versions |-> catalog]

\* lines 649-662, the try block: the exception it ends with, "none" otherwise
marketplace_request(response) ==
    CASE response.kind = "timeout" -> "Timeout"
      [] response.kind = "connection_error" -> "ConnectionError"
      [] response.kind = "http_error" -> "HTTPError"
      [] response.kind = "not_json" -> "JSONDecodeError"
      [] response.kind = "json_not_object" -> "AttributeError"
      [] OTHER -> "none"

\* lines 664-669: Timeout, RequestException (ConnectionError, HTTPError and
\* requests' JSONDecodeError are RequestExceptions), KeyError, IndexError and
\* json.JSONDecodeError are caught
CaughtByQuery ==
    {"Timeout", "ConnectionError", "HTTPError", "JSONDecodeError", "KeyError",
     "IndexError"}

\* query_marketplace: [exc, found, versions]; found is FALSE for None
query_marketplace(response) ==
    LET exc == marketplace_request(response)
    IN IF exc \in CaughtByQuery
       THEN [exc |-> "none", found |-> FALSE, versions |-> <<>>]
       ELSE IF exc # "none"
       THEN [exc |-> exc, found |-> FALSE, versions |-> <<>>]
       ELSE [exc |-> "none", found |-> response.kind = "ok",
             versions |-> response.versions]

critical_proposals ==
    {<<"languageModelPicker">>, <<"chatParticipantPrivate">>,
     <<"defaultChatParticipant">>, <<"chatSessionsProvider">>, <<"chatProvider">>,
     <<"findFiles2">>}

\* lines 468-516 of update_user_product_json for one extension: the critical
\* proposals appended to its list, given the extracted proposals
added_critical(proposals, supported) ==
    LET listed == {proposals[k] : k \in 1..Len(proposals)}
                      \cup {split(proposals[k])[1] : k \in 1..Len(proposals)}
    IN IF proposals = <<>> THEN {}
       ELSE {prop \in critical_proposals :
                 prop \notin listed /\ (supported = {} \/ prop \in supported)}

StartSelector(catalog) ==
    /\ versions' = catalog
    /\ checked_count' = 0
    /\ skipped_prerelease' = 0
    /\ skipped_incompatible_engine' = 0
    /\ skipped_incompatible_api' = 0
    /\ pc' = "scan"
    /\ selected' = 0
    /\ downloads' = <<>>
    /\ reported' = <<>>
    /\ gate_calls' = <<>>
    /\ UNCHANGED <<target_version, supported_apis, tmp_files>>

Exit(how, code) == main_pc' = how /\ exit_code' = code

\* step 0: check_not_running_in_codium and check_dependencies may sys.exit
SafetyChecks ==
    /\ main_pc = "safety"
    /\ \E outcome \in {"safe", "exit_1", "exit_130"} :
          CASE outcome = "safe" -> main_pc' = "version" /\ UNCHANGED exit_code
            [] outcome = "exit_1" -> Exit("exited", 1)
            [] OTHER -> Exit("exited", 130)
    /\ UNCHANGED <<registry, ext_index, requests_sent, main_downloads,
                   resolver_calls, steps, config_success, granted>>
    /\ UNCHANGED <<gateVars, resolverVars, selectorVars, comparatorVars, readerVars>>

\* step 1: get_codium_version returns the version or calls sys.exit(1)
GetCodiumVersion ==
    /\ main_pc = "version"
    /\ \E detected \in BOOLEAN :
          IF detected
          THEN /\ target_version' = HostVersion
               /\ main_pc' = "detect"
               /\ UNCHANGED exit_code
          ELSE /\ Exit("exited", 1)
               /\ UNCHANGED target_version
    /\ UNCHANGED <<registry, ext_index, requests_sent, main_downloads,
                   resolver_calls, steps, config_success, granted>>
    /\ UNCHANGED <<versions, supported_apis, checked_count, Counters, pc, selected,
                   tmp_files, downloads, reported, gate_calls>>
    /\ UNCHANGED <<gateVars, resolverVars, comparatorVars, readerVars>>

\* step 2: supported_apis = get_supported_api_proposals()
DetectSupportedApis ==
    /\ main_pc = "detect"
    /\ resolve_out' = get_supported_api_proposals(runtime_files, product_files)
    /\ supported_apis' = get_supported_api_proposals(runtime_files, product_files).value
    /\ resolver_calls' = resolver_calls + 1
    /\ main_pc' = "query"
    /\ ext_index' = 1
    /\ UNCHANGED <<registry, requests_sent, main_downloads, steps, config_success,
                   granted, exit_code>>
    /\ UNCHANGED <<versions, target_version, checked_count, Counters, pc, selected,
                   tmp_files, downloads, reported, gate_calls>>
    /\ UNCHANGED <<runtime_files, bundle_file, product_files>>
    /\ UNCHANGED <<gateVars, comparatorVars, readerVars>>

\* step 3, lines 1056-1063: query the registry for the next extension and,
\* with its data, enter find_compatible_version_with_api_check
QueryMarketplace ==
    /\ main_pc = "query"
    /\ ext_index <= Len(EXTENSIONS)
    /\ requests_sent' = requests_sent + 1
    /\ LET ext_data == query_marketplace(registry[ext_index])
       IN CASE ext_data.exc # "none" ->
                 /\ Exit("raised", 1)
                 /\ UNCHANGED <<ext_index, selectorVars>>
            [] ext_data.exc = "none" /\ ~ext_data.found ->
                 /\ ext_index' = ext_index + 1
                 /\ UNCHANGED <<main_pc, exit_code, selectorVars>>
            [] OTHER ->
                 /\ main_pc' = "select"
                 /\ StartSelector(ext_data.versions)
                 /\ UNCHANGED <<ext_index, exit_code>>
    /\ UNCHANGED <<registry, main_downloads, resolver_calls, steps, config_success,
                   granted>>
    /\ UNCHANGED <<gateVars, resolverVars, comparatorVars, readerVars>>

\* lines 1065-1068: the selector has ended; `if compatible: downloads.append`
SelectorEnded ==
    /\ main_pc = "select"
    /\ pc \in {"returned", "raised"}
    /\ IF pc = "raised"
       THEN /\ Exit("raised", 1)
            /\ UNCHANGED <<ext_index, main_downloads>>
       ELSE /\ main_pc' = "query"
            /\ ext_index' = ext_index + 1
            /\ main_downloads' =
                  IF selected # 0
                  THEN Append(main_downloads,
                              [ext |-> EXTENSIONS[ext_index],
                               compatible |-> versions[selected]])
                  ELSE main_downloads
            /\ UNCHANGED exit_code
    /\ pc' = "idle"
    /\ UNCHANGED <<versions, target_version, supported_apis, checked_count, Counters,
                   selected, tmp_files, downloads, reported, gate_calls>>
    /\ UNCHANGED <<registry, requests_sent, resolver_calls, steps, config_success,
                   granted>>
    /\ UNCHANGED <<gateVars, resolverVars, comparatorVars, readerVars>>

\* lines 1070-1075: if len(downloads) != len(EXTENSIONS): return 1
CheckAllFound ==
    /\ main_pc = "query"
    /\ ext_index > Len(EXTENSIONS)
    /\ IF Len(main_downloads) # Len(EXTENSIONS)
       THEN Exit("returned", 1)
       ELSE main_pc' = "prepare" /\ UNCHANGED exit_code
    /\ UNCHANGED <<registry, ext_index, requests_sent, main_downloads,
                   resolver_calls, steps, config_success, granted>>
    /\ UNCHANGED <<gateVars, resolverVars, selectorVars, comparatorVars, readerVars>>

\* step 4: cleanup_existing_extensions(); terminate_codium()
PrepareVSCodium ==
    /\ main_pc = "prepare"
    /\ steps' = steps \o <<"cleanup_existing_extensions", "terminate_codium">>
    /\ main_pc' = "download"
    /\ ext_index' = 1
    /\ UNCHANGED <<registry, requests_sent, main_downloads, resolver_calls,
                   config_success, granted, exit_code>>
    /\ UNCHANGED <<gateVars, resolverVars, selectorVars, comparatorVars, readerVars>>

\* step 5: download_vsix for the next entry of downloads; a failure returns 1
DownloadVsix ==
    /\ main_pc = "download"
    /\ ext_index <= Len(main_downloads)
    /\ steps' = Append(steps, "download_vsix")
    /\ \E filepath \in BOOLEAN :
          IF filepath
          THEN /\ ext_index' = ext_index + 1
               /\ main_pc' = IF ext_index = Len(main_downloads) THEN "configure"
                             ELSE "download"
               /\ UNCHANGED exit_code
          ELSE /\ Exit("returned", 1)
               /\ UNCHANGED ext_index
    /\ UNCHANGED <<registry, requests_sent, main_downloads, resolver_calls,
                   config_success, granted>>
    /\ UNCHANGED <<gateVars, resolverVars, selectorVars, comparatorVars, readerVars>>

\* update_user_product_json appending what it grants to the set it was given
ConfigureApiProposalsIntoSharedSet ==
    /\ main_pc = "configure"
    /\ \E written \in BOOLEAN :
          /\ config_success' = written
          /\ granted' =
                IF written
                THEN UNION {added_critical(
                               extract_api_proposals_from_vsix(
                                   main_downloads[k].compatible.package),
                               supported_apis) : k \in 1..Len(main_downloads)}
                ELSE {}
          /\ supported_apis' = supported_apis \cup granted'
    /\ steps' = steps \o <<"update_user_product_json", "update_user_settings">>
    /\ main_pc' = "install"
    /\ UNCHANGED <<registry, ext_index, requests_sent, main_downloads,
                   resolver_calls, exit_code>>
    /\ UNCHANGED <<versions, target_version, checked_count, Counters, pc,
                   selected, tmp_files, downloads, reported, gate_calls>>
    /\ UNCHANGED <<gateVars, resolverVars, comparatorVars, readerVars>>

\* steps 6-8: extract the proposals of the downloaded packages,
\* update_user_product_json(extension_proposals, supported_apis),
\* update_user_settings()
ConfigureApiProposals ==
    /\ main_pc = "configure"
    /\ \E written \in BOOLEAN :
          /\ config_success' = written
          /\ granted' =
                IF written
                THEN UNION {added_critical(
                               extract_api_proposals_from_vsix(
                                   main_downloads[k].compatible.package),
                               supported_apis) : k \in 1..Len(main_downloads)}
                ELSE {}
    /\ steps' = steps \o <<"update_user_product_json", "update_user_settings">>
    /\ main_pc' = "install"
    /\ UNCHANGED <<registry, ext_index, requests_sent, main_downloads,
                   resolver_calls, exit_code>>
    /\ UNCHANGED <<versions, target_version, supported_apis, checked_count, Counters, pc,
                   selected, tmp_files, downloads, reported, gate_calls>>
    /\ UNCHANGED <<gateVars, resolverVars, comparatorVars, readerVars>>

\* steps 9-10: install_extension, validate_installation, cleanup_files, and
\* the final status
InstallAndValidate ==
    /\ main_pc = "install"
    /\ steps' = steps \o <<"install_extension", "validate_installation",
                           "cleanup_files">>
    /\ \E install_success \in BOOLEAN, validation_ok \in BOOLEAN :
          Exit("returned",
               IF validation_ok /\ config_success /\ install_success THEN 0 ELSE 1)
    /\ UNCHANGED <<registry, ext_index, requests_sent, main_downloads,
                   resolver_calls, config_success, granted>>
    /\ UNCHANGED <<gateVars, resolverVars, selectorVars, comparatorVars, readerVars>>

\* catalogs the registry answers with when main is run
MainCatalogs ==
    {<<>>,
     <<GoodRecord>>,
     <<PrereleaseRecord, FetchedRecord(Package("ok", <<>>), "ok")>>,
     <<FetchedRecord(Package("ok", <<<<"chatHooks", "@", "6">>,
                                    <<"missingProposal", "@", "1">>>>), "ok")>>,
     <<VersionRecord("malformed", FALSE, Engine109, TRUE, "ok", NoPackage, "ok")>>,
     <<FetchedRecord(Package("ok", <<<<"chatHooks", "@", "6">>>>), "gone")>>,
     <<FetchedRecord(Package("ok", <<<<"chatHooks", "@", "6">>>>), "denied")>>,
     <<VersionRecord("ok", FALSE, EngineAbsent, TRUE, "ok", NoPackage, "ok"),
       VersionRecord("ok", FALSE, Engine110, TRUE, "ok", NoPackage, "ok"),
       VersionRecord("ok", FALSE, Engine109, FALSE, "ok", NoPackage, "ok"),
       VersionRecord("ok", FALSE, Engine109, TRUE, "fail_nofile", NoPackage, "ok"),
       GoodRecord>>,
     <<VersionRecord("ok", FALSE, EngineNumber, TRUE, "ok", NoPackage, "ok")>>}

Responses ==
    {Response(k, <<>>) :
        k \in {"timeout", "connection_error", "http_error", "not_json",
               "json_not_object", "no_results", "no_extensions"}}
      \cup {Response("ok", c) : c \in MainCatalogs}

\* the evidence files found on the host: none, a runtime file, or only a
\* product.json
MainEvidence ==
    {[runtime |-> <<AbsentFile, AbsentFile>>,
      product |-> <<ProductFile("absent", <<>>), ProductFile("absent", <<>>)>>],
     [runtime |-> <<TextFile(<<Decl("chatHooks", TRUE), Decl("version", TRUE),
                              Decl("exports", FALSE)>>), AbsentFile>>,
      product |-> <<ProductFile("absent", <<>>), ProductFile("absent", <<>>)>>],
     [runtime |-> <<AbsentFile, TextFile(<<Decl("activeComment", TRUE)>>)>>,
      product |-> <<ProductFile("absent", <<>>), ProductFile("absent", <<>>)>>],
     [runtime |-> <<AbsentFile, AbsentFile>>,
      product |-> <<ProductFile("invalid_json", <<>>),
                    ProductFile("json",
                        <<[ext |-> "GitHub.copilot-chat",
                           proposals |-> <<<<"chatHooks", "@", "6">>>>]>>)>>]}

MainInit ==
    /\ registry \in [1..Len(EXTENSIONS) -> Responses]
    /\ \E ev \in MainEvidence : runtime_files = ev.runtime /\ product_files = ev.product
    /\ bundle_file = AbsentFile
    /\ resolve_out = ResolveIdle
    /\ main_pc = "safety"
    /\ ext_index = 0
    /\ requests_sent = 0
    /\ main_downloads = <<>>
    /\ resolver_calls = 0
    /\ steps = <<>>
    /\ config_success = FALSE
    /\ granted = {}
    /\ exit_code = -1
    /\ SelectorUnused
    /\ GateUnused
    /\ ComparatorUnused
    /\ ReaderUnused

MainNext ==
    \/ SafetyChecks
    \/ GetCodiumVersion
    \/ DetectSupportedApis
    \/ QueryMarketplace
    \/ ReturnNoVersions
    \/ ScanMalformedProperties
    \/ ScanPrerelease
    \/ ScanNoEngine
    \/ ScanEngineNotString
    \/ ScanEngineMismatch
    \/ ScanNoPackage
    \/ ScanDownloadFailed
    \/ ScanApiMismatch
    \/ ScanAccept
    \/ ReturnExhausted
    \/ SelectorEnded
    \/ CheckAllFound
    \/ PrepareVSCodium
    \/ DownloadVsix
    \/ ConfigureApiProposals
    \/ InstallAndValidate

SpecMain == MainInit /\ [][MainNext]_vars


-----------------------------------------------------------------------------
(* Claims about the selector (Spec) *)

\* a record that is not pre-release, declares an engine requirement the host
\* satisfies, lists a package, is fetched and passes the gate
Acceptable(v) ==
    /\ v.props = "ok"
    /\ ~v.prerelease
    /\ v.engine.kind = "str"
    /\ is_version_compatible(target_version, v.engine.str)
    /\ v.vsix
    /\ v.dl = "ok"
    /\ check_api_compatibility(extract_api_proposals_from_vsix(v.package),
                               supported_apis).ok

FirstAcceptable ==
    LET hits == {i \in 1..Len(versions) :
                     i <= MAX_VERSIONS_TO_CHECK /\ Acceptable(versions[i])}
    IN IF hits = {} THEN 0 ELSE Min(hits)

\* C1: the selector returns the earliest acceptable record among the first
\* 200; nothing after it is downloaded or selected, and records are probed in
\* catalog order.
FirstAcceptance ==
    /\ pc = "returned" => selected = FirstAcceptable
    /\ \A k \in 1..Len(downloads) :
          /\ FirstAcceptable # 0 => downloads[k] <= FirstAcceptable
          /\ k > 1 => downloads[k - 1] < downloads[k]

\* C10: a record whose download fails is not selected, and the scan goes on
\* to the next record instead of ending.
FetchFailureIsSkip ==
    [][(Scanning /\ PassesPackageListed(ver) /\ ver.dl # "ok")
           => (pc' = "scan" /\ selected' = 0 /\ checked_count' = checked_count + 1)]_vars

\* C11: a fetched package whose manifest cannot be extracted is never the
\* selected version.
ExtractionFailureIsSkip ==
    (pc = "returned" /\ selected # 0) => versions[selected].package.st = "ok"

IsEndToEndCatalog ==
    /\ Len(versions) = 4
    /\ PassesProperties(versions[1]) /\ versions[1].prerelease
    /\ PassesEngineString(versions[2])
    /\ ~is_version_compatible(target_version, versions[2].engine.str)
    /\ PassesEngine(versions[3]) /\ ~versions[3].vsix
    /\ Acceptable(versions[4])

\* C12: on a catalog of one pre-release, one engine-mismatched, one
\* package-less and one fully compatible record, the selector ends by
\* returning the fourth record with counters checked=4, prerelease=1,
\* engineMismatch=1, capabilityMismatch=0.
EndToEndCounters ==
    (IsEndToEndCatalog /\ pc # "scan")
        => /\ pc = "returned"
           /\ selected = 4
           /\ reported = <<4, 1, 1, 0>>

DeleteFails(v) ==
    \/ v.dl = "ok" /\ v.unlink # "ok"
    \/ v.dl = "fail_file" /\ v.unlink \in {"transient", "denied"}

\* C14: when deleting the temporary file of a record fails, no exception
\* leaves the selector and the verdict on the record stands: a record that
\* passed the gate is returned, any other is skipped.
DeleteFailureNotEscalated ==
    [][(Scanning /\ PassesPackageListed(ver) /\ DeleteFails(ver))
           => /\ pc' # "raised"
              /\ (ver.dl = "ok" /\ is_api_compatible(ver))
                     => (pc' = "returned" /\ selected' = checked_count + 1)]_vars

\* C15: whatever the catalog holds, the selector ends with a selected
\* version or the no-compatible-version result; no exception leaves it.
NoExceptionEscapes == pc # "raised"

\* C20: when the selector ends without a selected version it has returned
\* the failure outcome, and the counters checked, skipped-prerelease,
\* skipped-engine-mismatch and skipped-capability-mismatch come with it.
ExhaustedCarriesCounters ==
    (pc # "scan" /\ selected = 0)
        => /\ pc = "returned"
           /\ reported = <<checked_count, skipped_prerelease,
                           skipped_incompatible_engine, skipped_incompatible_api>>

\* the first record within the cap that is not pre-release, satisfies the
\* engine requirement, lists a package and downloads
Eligible(v) == PassesPackageListed(v) /\ v.dl = "ok"

FirstEligible ==
    LET hits == {i \in 1..Len(versions) :
                     i <= MAX_VERSIONS_TO_CHECK /\ Eligible(versions[i])}
    IN IF hits = {} THEN 0 ELSE Min(hits)

\* C24: with an empty supported set the selector returns the first
\* engine-compatible, downloadable, non-pre-release record whatever its
\* manifest requires, and the capability-mismatch counter stays 0.
PermissiveEndToEnd ==
    supported_apis = {}
        => /\ skipped_incompatible_api = 0
           /\ pc # "scan" => (pc = "returned" /\ selected = FirstEligible)

SkipCountersSum ==
    skipped_prerelease + skipped_incompatible_engine + skipped_incompatible_api

\* C27: a record without engine requirement and an engine-compatible record
\* without package are skipped with no download and no skip counter raised;
\* the capability-mismatch counter moves only for a record that was fetched
\* and that the gate rejected.
SilentSkips ==
    [][/\ (Scanning /\ (\/ PassesPrerelease(ver) /\ ver.engine.kind = "none"
                        \/ PassesEngine(ver) /\ ~ver.vsix))
            => /\ checked_count' = checked_count + 1
               /\ downloads' = downloads
               /\ Counters' = Counters
               /\ pc' = "scan"
       /\ skipped_incompatible_api' # skipped_incompatible_api
            => /\ skipped_incompatible_api' = skipped_incompatible_api + 1
               /\ Eligible(ver)
               /\ downloads' = Append(downloads, checked_count + 1)
               /\ gate_calls' = Append(gate_calls, checked_count + 1)
               /\ ~check_api_compatibility(
                       extract_api_proposals_from_vsix(ver.package),
                       supported_apis).ok]_vars

SilentSkipsWitness ==
    /\ Len(versions) = 2
    /\ checked_count = 2
    /\ versions[1].engine.kind = "none" /\ ~versions[1].prerelease
    /\ PassesEngine(versions[2]) /\ ~versions[2].vsix
    /\ SkipCountersSum = 0
    /\ downloads = <<>>

CounterBounds ==
    /\ SkipCountersSum <= checked_count
    /\ checked_count <= Len(versions)
    /\ checked_count <= MAX_VERSIONS_TO_CHECK
    /\ \A k \in 1..Len(downloads) : downloads[k] <= MAX_VERSIONS_TO_CHECK

\* C28: skipped-prerelease + skipped-engine + skipped-capability <= checked
\* <= min(catalog length, 200) throughout; a step that examines a record
\* raises checked by one and at most one skip counter by one; nothing past
\* the 200th record is examined.
CounterAndCapInvariant ==
    [][/\ CounterBounds'
       /\ checked_count' # checked_count
            => /\ checked_count' = checked_count + 1
               /\ checked_count < MAX_VERSIONS_TO_CHECK
               /\ skipped_prerelease' - skipped_prerelease \in {0, 1}
               /\ skipped_incompatible_engine' - skipped_incompatible_engine \in {0, 1}
               /\ skipped_incompatible_api' - skipped_incompatible_api \in {0, 1}
               /\ SkipCountersSum' - SkipCountersSum \in {0, 1}
       /\ checked_count' = checked_count => Counters' = Counters]_vars

CounterAndCapWitness ==
    /\ Len(versions) > MAX_VERSIONS_TO_CHECK
    /\ checked_count = MAX_VERSIONS_TO_CHECK
    /\ skipped_prerelease = MAX_VERSIONS_TO_CHECK
    /\ pc = "returned"

\* C29: a fetched candidate whose requirement list is empty is returned
\* without the gate being called, whatever the supported set.
EmptyManifestBypassesGate ==
    [][(Scanning /\ Eligible(ver) /\ required_apis(ver) = <<>>)
           => /\ gate_calls' = gate_calls
              /\ pc' = "returned"
              /\ selected' = checked_count + 1]_vars

-----------------------------------------------------------------------------
(* Claims about the comparator (SpecComparator) *)

\* a bare dotted-integer version: nothing before the digits, no qualifier
IsDottedIntegers(v) == v.prefix = <<>> /\ v.release # <<>> /\ v.post = -1 /\ ~v.junk

Padded(release, n) == [i \in 1..n |-> IF i <= Len(release) THEN release[i] ELSE 0]

\* h >= v, comparing integer components left to right after padding the
\* shorter one with zeros
ComponentwiseGe(h, v) ==
    LET n == IF Len(h) > Len(v) THEN Len(h) ELSE Len(v)
        differ == {i \in 1..n : Padded(h, n)[i] # Padded(v, n)[i]}
    IN differ = {} \/ Padded(h, n)[Min(differ)] > Padded(v, n)[Min(differ)]

\* C16: for dotted-integer host and required versions the comparator answers
\* true exactly when host >= required component by component, missing
\* trailing components counting as 0.
EngineComparison ==
    (compat_out.called /\ IsDottedIntegers(arg_vscode_version)
                       /\ IsDottedIntegers(parse_engine_requirement(arg_engine_requirement)))
        => /\ ~compat_out.raised
           /\ compat_out.value = ComponentwiseGe(arg_vscode_version.release,
                                                 arg_engine_requirement.release)

EngineComparisonWitness ==
    /\ compat_out.called
    /\ arg_vscode_version = VersionStr(<<>>, <<1, 109>>, -1, FALSE)
    /\ arg_engine_requirement = VersionStr(<<"^">>, <<1, 109, 0>>, -1, FALSE)
    /\ compat_out.value = TRUE

WithoutQualifier(v) == [v EXCEPT !.post = -1, !.junk = FALSE]

\* C17: a trailing qualifier on the host or on the requirement does not
\* change the comparator's answer.
QualifiersIgnored ==
    compat_out.called
        => compat_out.value =
               is_version_compatible(WithoutQualifier(arg_vscode_version),
                                     WithoutQualifier(arg_engine_requirement))

\* C18: the comparator gives the same answer whichever of '', '^', '>=',
\* '~' precedes the required version.
PrefixesInformational ==
    (compat_out.called /\ arg_engine_requirement.prefix \in OperatorPrefixes)
        => \A p \in OperatorPrefixes :
              LET out == is_version_compatible_outcome(
                             arg_vscode_version,
                             [arg_engine_requirement EXCEPT !.prefix = p])
              IN out.raised = compat_out.raised /\ out.value = compat_out.value

PrefixesInformationalWitness ==
    /\ compat_out.called
    /\ arg_vscode_version = HostVersion
    /\ arg_engine_requirement = VersionStr(<<"~">>, <<1, 109, 0>>, -1, FALSE)
    /\ compat_out.value = TRUE

\* C19: when the host version or the stripped requirement is not a version,
\* the comparator returns False and raises nothing.
ParseFailureIsFalse ==
    (compat_out.called
       /\ (~version_parse(arg_vscode_version).valid
           \/ ~version_parse(parse_engine_requirement(arg_engine_requirement)).valid))
        => (~compat_out.raised /\ compat_out.value = FALSE)

ParseFailureIsFalseWitness ==
    /\ compat_out.called
    /\ version_parse(arg_vscode_version).valid
    /\ arg_engine_requirement.release = <<>>
    /\ ~compat_out.raised
    /\ compat_out.value = FALSE

-----------------------------------------------------------------------------
(* Claims about the structured-source reader (SpecReader) *)

StructuralTokens ==
    {<<"version">>, <<"exports">>, <<"module">>, <<"define">>, <<"require">>,
     <<"default">>}

\* the keys of proposals_js written as `<key>: { version: <int>`
DeclaredKeys ==
    {proposals_js.decls[i].key :
        i \in {j \in 1..Len(proposals_js.decls) : proposals_js.decls[j].versioned}}

\* C22: whatever the file holds and however it is formatted, the returned
\* set has every declared capability name and none of the structural tokens
\* version, exports, module, define, require, default.
ReaderRejectsNoise ==
    (reader_out.called /\ reader_out.some)
        => /\ DeclaredKeys \ StructuralTokens \subseteq reader_out.names
           /\ reader_out.names \cap StructuralTokens = {}

\* C23: the reader never raises and never returns an empty set; it returns
\* None for a missing or unreadable file and for a file with no name other
\* than `version`, and returns the names as soon as there is one.
ReaderFailureValue ==
    reader_out.called
        => /\ ~reader_out.raised
           /\ reader_out.some => reader_out.names # {}
           /\ IF proposals_js.st = "text" /\ DeclaredKeys \ {<<"version">>} # {}
              THEN reader_out.some
                   /\ reader_out.names = DeclaredKeys \ {<<"version">>}
              ELSE ~reader_out.some

ReaderFailureValueWitness ==
    /\ reader_out.called
    /\ proposals_js.st = "text"
    /\ DeclaredKeys = {<<"version">>}
    /\ ~reader_out.some

-----------------------------------------------------------------------------
(* Further claims about the resolver (SpecResolver) *)

\* a source file that exists but gives no evidence: unreadable, or without
\* any declared name
MalformedRuntimeFile(file) ==
    file.st = "unreadable" \/ (file.st = "text" /\ ~get_runtime_api_proposals(file).some)

MalformedProductFile(file) == file.st \in {"unreadable", "invalid_json", "not_object"}

RuntimeFilesAsAbsent ==
    [i \in DOMAIN runtime_files |->
        IF MalformedRuntimeFile(runtime_files[i]) THEN AbsentFile ELSE runtime_files[i]]

ProductFilesAsAbsent ==
    [i \in DOMAIN product_files |->
        IF MalformedProductFile(product_files[i]) THEN ProductFile("absent", <<>>)
        ELSE product_files[i]]

\* C26: the resolver's result is the one it would give if every unreadable
\* or malformed source file were absent, so a later path of the same source
\* is still used.
MalformedIsAbsent ==
    resolve_out # ResolveIdle
        => /\ ~resolve_out.raised
           /\ resolve_out.value =
                  get_supported_api_proposals(RuntimeFilesAsAbsent,
                                              ProductFilesAsAbsent).value

-----------------------------------------------------------------------------
(* Claims about main (SpecMain) *)

QueryFails(i) == registry[i].kind # "ok"

\* C21: a registry query that times out, fails in transport or gets an
\* invalid or empty answer costs one request, raises nothing and returns
\* None; main does not run the selector for that extension and returns 1
\* without having changed the installation.
QueryFailureIsReported ==
    [][/\ (main_pc = "query" /\ ext_index <= Len(EXTENSIONS) /\ QueryFails(ext_index))
            => /\ requests_sent' = requests_sent + 1
               /\ main_pc' = "query"
               /\ ext_index' = ext_index + 1
               /\ pc' = "idle"
       /\ (main_pc' = "returned" /\ \E i \in 1..Len(EXTENSIONS) : QueryFails(i))
            => (exit_code' = 1 /\ steps' = <<>>)]_vars

\* steps of main that follow the detection of the supported set
AfterDetection == main_pc \notin {"idle", "safety", "version", "detect", "exited"}

\* C25: get_supported_api_proposals is called once in a run of main, and
\* no later step (selector, gate, update_user_product_json) changes the set
\* it returned.
SupportedSetFixed ==
    [][/\ resolver_calls' <= 1
       /\ AfterDetection
            => /\ resolver_calls = 1
               /\ resolver_calls' = 1
               /\ supported_apis = resolve_out.value
               /\ supported_apis' = supported_apis]_vars

SupportedSetFixedWitness ==
    /\ main_pc = "returned"
    /\ exit_code = 0
    /\ resolver_calls = 1
    /\ gate_calls # <<>>
    /\ granted # {}
    /\ supported_apis = {}

AllFound == Len(main_downloads) = Len(EXTENSIONS)

\* C30: steps 4-10 (uninstalling, terminating the host, downloading,
\* configuring, installing) run only when a compatible version was found for
\* every extension; otherwise main returns 1 with none of them performed.
DestructiveOnlyAfterResolution ==
    /\ steps # <<>> => AllFound
    /\ (main_pc \in {"returned", "raised"} /\ ~AllFound)
          => (main_pc = "returned" /\ exit_code = 1 /\ steps = <<>>)

====
